---- MODULE Spec2Model ----
(***************************************************************************)
(* Feature registry (src/features/store.py), dependency resolver           *)
(* (src/features/resolver.py), analyzer (src/features/analyzer.py) and     *)
(* single-loop group execution engine (src/execution/groupby.py), model    *)
(* executor, orchestrator and context (src/execution, src/core).           *)
(*                                                                         *)
(* Three specifications share the variables:                               *)
(*   SpecStore    the registry operations of FeatureStore                  *)
(*   SpecResolve  one call of DependencyResolver.resolve_dependencies      *)
(*   SpecEngine   resolve, analyze, then GroupByProcessor over all groups  *)
(*   SpecPipeline ExecutionOrchestrator.execute_pipeline over the context  *)
(***************************************************************************)
EXTENDS Integers, Sequences, FiniteSets, TLC

VARIABLES
    features,        \* FeatureStore.features: key -> definition
    current_model,   \* FeatureStore.current_model
    feature_index,   \* FeatureStore.feature_index: model -> cached list of names
    disk,            \* feature folders on the filesystem: <<folder, name>> -> definition
    output_cols,     \* resolve_dependencies argument
    available_cols,  \* resolve_dependencies argument
    group_by,        \* resolve_dependencies argument / cfg_model['group_by']
    req_model,       \* resolve_dependencies argument model
    input_cols,      \* resolver result
    expanded,        \* names whose argument loop _resolve_feature entered, in call order
    exec_seq,        \* resolver result
    rpc,             \* resolver position: "init", "returned" or the exception raised
    last,            \* record of the last registry call and what it returned
    data_in,         \* the caller's input table: [cols, rows]
    ext_names,       \* column names that carry the prefix of an external_data source
    cfg,             \* cfg_model: group_by, ext_cols, feature_args, feature_groupby_flg
    epc,             \* engine position, or the exception that ended the run
    groups,          \* group keys in the iteration order of groupby
    gi,              \* index of the group being processed
    fi,              \* index in exec_seq of the feature reached
    work,            \* process_group's data_in / data_enriched: the working row table
    agg_results,     \* process_group's agg_results (scalar_map)
    filters_calculated, \* process_group's filters_calculated
    grouped_results, \* results returned by process_group, one per finished group
    filters_df,      \* process_all_groups result
    attrs_df,        \* process_all_groups result
    calls,           \* log of calculator calls that returned: group, feature, kind, flags
    output,          \* what execute_model returned
    ctx_models,      \* GabedaContext.models: model name -> stored output
    ctx_datasets,    \* GabedaContext.datasets: dataset name -> DataFrame
    pipeline,        \* execute_pipeline argument models
    pstep,           \* index of the pipeline's model being executed (0: no pipeline)
    feature_def,     \* the argument of FeatureTypeDetector.is_aggregation
    has_aggregation  \* what is_aggregation returned

storeVars == <<features, current_model, feature_index, disk>>
resolveVars == <<output_cols, available_cols, group_by, req_model, input_cols, exec_seq,
                 expanded, rpc>>
orchVars == <<output, ctx_models, ctx_datasets, pipeline, pstep>>
detVars == <<feature_def, has_aggregation>>
engineVars == <<data_in, ext_names, cfg, epc, groups, gi, fi, work, agg_results,
                filters_calculated, grouped_results, filters_df, attrs_df, calls,
                output, ctx_models, ctx_datasets, pipeline, pstep>>
vars == <<features, current_model, feature_index, disk, output_cols,
          available_cols, group_by, req_model, input_cols, exec_seq, expanded, rpc, last,
          data_in, ext_names, cfg, epc, groups, gi, fi, work, agg_results,
          filters_calculated, grouped_results, filters_df, attrs_df, calls,
          output, ctx_models, ctx_datasets, pipeline, pstep, feature_def, has_aggregation>>

----------------------------------------------------------------------------
(* Names and small helpers *)

\* Python None for a model name / a missing definition
NoModel == "None"
NoDef == [args |-> <<>>, agg |-> FALSE, origin |-> "None"]

\* FeatureStore.common_folder
common_folder == "common"

\* Length of the longest call chain of _resolve_feature before Python raises
\* RecursionError (sys.getrecursionlimit(), scaled down).
RecursionLimit == 5

Range(s) == {s[i] : i \in 1..Len(s)}

InSeq(x, s) == \E i \in 1..Len(s) : s[i] = x

\* list.append guarded by "if x not in list"
AppendNew(s, x) == IF InSeq(x, s) THEN s ELSE Append(s, x)

IndexOf(s, x) == IF InSeq(x, s) THEN CHOOSE i \in 1..Len(s) : s[i] = x /\ \A j \in 1..(i-1) : s[j] # x ELSE 0

----------------------------------------------------------------------------
(* FeatureStore *)

\* key = f"{model}:{name}" if model else name
KeyOf(model, name) == <<model, name>>

\* dict.get(key): the definition or None
DictGet(feats, key) == IF key \in DOMAIN feats THEN feats[key] ELSE NoDef

DictPut(feats, key, def) == [k \in (DOMAIN feats) \cup {key} |-> IF k = key THEN def ELSE feats[k]]

\* model = model or self.current_model
EffectiveModel(model, cur) == IF model # NoModel THEN model ELSE cur

store_feature(feats, cur, name, def, model) ==
    DictPut(feats, KeyOf(EffectiveModel(model, cur), name), def)

get_feature(feats, cur, name, model) ==
    LET m == EffectiveModel(model, cur)
        d == DictGet(feats, KeyOf(m, name))
    IN  IF d = NoDef /\ m # NoModel THEN DictGet(feats, KeyOf(NoModel, name)) ELSE d

\* has_feature answering yes for every name
has_feature_Always(feats, name) == TRUE

has_feature(feats, name) == KeyOf(NoModel, name) \in DOMAIN feats

\* The folder load_from_filesystem reads: the model's, else the common one
LoadFolder(dsk, model, feature) ==
    IF <<model, feature>> \in DOMAIN dsk THEN model
    ELSE IF <<common_folder, feature>> \in DOMAIN dsk THEN common_folder
    ELSE NoModel

\* load_from_filesystem: the store after the call (the caller checks LoadFolder first)
load_from_filesystem(feats, cur, dsk, model, feature) ==
    store_feature(feats, cur, feature, dsk[<<LoadFolder(dsk, model, feature), feature>>], model)

\* get_feature_index: the cached list, else the folders of the model on disk
\* (iterdir order, which the code does not fix)
RECURSIVE SetToSeq(_)
SetToSeq(S) == IF S = {} THEN <<>>
               ELSE LET x == CHOOSE y \in S : TRUE
                    IN  <<x>> \o SetToSeq(S \ {x})

get_feature_index(fidx, dsk, m) ==
    IF m \in DOMAIN fidx THEN fidx[m]
    ELSE SetToSeq({k[2] : k \in {kk \in DOMAIN dsk : kk[1] = m}})

\* the cache after get_feature_index
IndexAfter(fidx, dsk, m) ==
    IF m \in DOMAIN fidx THEN fidx
    ELSE [k \in (DOMAIN fidx) \cup {m} |-> IF k = m THEN get_feature_index(fidx, dsk, m) ELSE fidx[k]]

----------------------------------------------------------------------------
(* DependencyResolver *)

\* A group_by value as callers write it: None, a string ('' or one column
\* name) or a list of column names.
GbNone == [kind |-> "None", cols |-> <<>>]
GbStr(s) == [kind |-> "str", cols |-> s]
GbList(l) == [kind |-> "list", cols |-> l]

\* normalize_to_list(group_by, empty_indicators=[None, '']): None and '' give
\* [], a list is returned as it is, a single value is wrapped in a list
normalize_to_list(g) ==
    IF g.kind = "None" \/ (g.kind = "str" /\ g.cols = <<>>) THEN <<>>
    ELSE IF g.kind = "list" THEN g.cols
    ELSE <<g.cols[1]>>

\* The resolver's accumulators while the DFS runs: the two lists, the store
\* (load_from_filesystem writes to it) and the exception raised, if any.
ResolveStart(feats) == [ic |-> <<>>, es |-> <<>>, exp |-> <<>>, feats |-> feats, err |-> "ok"]

RECURSIVE ResolveFeature(_, _, _, _, _)
RECURSIVE ResolveArgs(_, _, _, _, _, _)

\* ResolveDefined with the feature appended to exec_seq before its arguments
\* are resolved
ResolveDefined_PreOrder(feature, rs, feat_idx, gby, depth) ==
    IF ~has_feature(rs.feats, feature) /\ ~InSeq(feature, feat_idx)
    THEN [rs EXCEPT !.ic = AppendNew(@, feature)]
    ELSE IF ~has_feature(rs.feats, feature) /\ LoadFolder(disk, req_model, feature) = NoModel
    THEN [rs EXCEPT !.err = "FileNotFoundError"]
    ELSE LET feats1 == IF has_feature(rs.feats, feature) THEN rs.feats
                       ELSE load_from_filesystem(rs.feats, current_model, disk, req_model, feature)
             def == get_feature(feats1, current_model, feature, NoModel)
         IN  IF def = NoDef THEN [rs EXCEPT !.feats = feats1, !.err = "AttributeError"]
             ELSE ResolveArgs(def.args, 1,
                      [rs EXCEPT !.feats = feats1, !.exp = Append(@, feature), !.es = AppendNew(@, feature)],
                      feat_idx, gby, depth)

\* _resolve_feature past Case 1 taking every name for an input column
ResolveDefined_AllInputs(feature, rs, feat_idx, gby, depth) ==
    [rs EXCEPT !.ic = AppendNew(@, feature)]

\* _resolve_feature past Case 1: Case 2 (not defined: fetch it from the
\* feature index, or take it for an input column) and Case 3 (defined:
\* resolve its arguments, then append it to exec_seq)
ResolveDefined(feature, rs, feat_idx, gby, depth) ==
    IF ~has_feature(rs.feats, feature) /\ ~InSeq(feature, feat_idx)
    THEN [rs EXCEPT !.ic = AppendNew(@, feature)]
    ELSE IF ~has_feature(rs.feats, feature) /\ LoadFolder(disk, req_model, feature) = NoModel
    THEN [rs EXCEPT !.err = "FileNotFoundError"]
    ELSE LET feats1 == IF has_feature(rs.feats, feature) THEN rs.feats
                       ELSE load_from_filesystem(rs.feats, current_model, disk, req_model, feature)
             \* self.store.get_feature(feature), no model passed
             def == get_feature(feats1, current_model, feature, NoModel)
         IN  IF def = NoDef THEN [rs EXCEPT !.feats = feats1, !.err = "AttributeError"]
             ELSE LET rs2 == ResolveArgs(def.args, 1,
                                 [rs EXCEPT !.feats = feats1, !.exp = Append(@, feature)],
                                 feat_idx, gby, depth)
                  IN  IF rs2.err # "ok" THEN rs2
                      ELSE [rs2 EXCEPT !.es = AppendNew(@, feature)]

\* _resolve_feature looking at the registry before available_cols
ResolveFeature_RegistryFirst(feature, rs, feat_idx, gby, depth) ==
    IF rs.err # "ok" THEN rs
    ELSE IF depth >= RecursionLimit THEN [rs EXCEPT !.err = "RecursionError"]
    ELSE IF InSeq(feature, available_cols) /\ ~has_feature(rs.feats, feature)
    THEN [rs EXCEPT !.ic = AppendNew(@, feature)]
    ELSE ResolveDefined(feature, rs, feat_idx, gby, depth)

\* _resolve_feature without the return that ends Case 1
ResolveFeature_NoReturn(feature, rs, feat_idx, gby, depth) ==
    IF rs.err # "ok" THEN rs
    ELSE IF depth >= RecursionLimit THEN [rs EXCEPT !.err = "RecursionError"]
    ELSE ResolveDefined(feature,
             IF InSeq(feature, available_cols) THEN [rs EXCEPT !.ic = AppendNew(@, feature)] ELSE rs,
             feat_idx, gby, depth)

\* _resolve_feature(feature, ..., depth)
ResolveFeature(feature, rs, feat_idx, gby, depth) ==
    IF rs.err # "ok" THEN rs
    ELSE IF depth >= RecursionLimit THEN [rs EXCEPT !.err = "RecursionError"]
    \* Case 1: an available column
    ELSE IF InSeq(feature, available_cols) THEN [rs EXCEPT !.ic = AppendNew(@, feature)]
    ELSE ResolveDefined(feature, rs, feat_idx, gby, depth)

\* the argument loop stopping after the first argument
ResolveArgs_FirstOnly(args, i, rs, feat_idx, gby, depth) ==
    IF i > Len(args) \/ rs.err # "ok" \/ i > 1 \/ InSeq(args[i], gby) THEN rs
    ELSE ResolveFeature(args[i], rs, feat_idx, gby, depth + 1)

\* the argument loop without the skip of group_by columns
RECURSIVE ResolveArgs_NoSkip(_, _, _, _, _, _)
ResolveArgs_NoSkip(args, i, rs, feat_idx, gby, depth) ==
    IF i > Len(args) \/ rs.err # "ok" THEN rs
    ELSE ResolveArgs_NoSkip(args, i + 1, ResolveFeature(args[i], rs, feat_idx, gby, depth + 1),
                            feat_idx, gby, depth)

\* for arg in arg_list: if arg not in group_by: recurse at depth + 1
ResolveArgs(args, i, rs, feat_idx, gby, depth) ==
    IF i > Len(args) \/ rs.err # "ok" THEN rs
    ELSE IF InSeq(args[i], gby) THEN ResolveArgs(args, i + 1, rs, feat_idx, gby, depth)
    ELSE ResolveArgs(args, i + 1, ResolveFeature(args[i], rs, feat_idx, gby, depth + 1),
                     feat_idx, gby, depth)

\* for feature in output_cols: _resolve_feature(feature, ..., depth=0)
RECURSIVE ResolveOutputs(_, _, _, _, _)
ResolveOutputs(outs, i, rs, feat_idx, gby) ==
    IF i > Len(outs) \/ rs.err # "ok" THEN rs
    ELSE ResolveOutputs(outs, i + 1, ResolveFeature(outs[i], rs, feat_idx, gby, 0), feat_idx, gby)

\* resolve_dependencies(output_cols, available_cols, group_by, model)
resolve_dependencies ==
    ResolveOutputs(output_cols, 1, ResolveStart(features),
                   get_feature_index(feature_index, disk, req_model), normalize_to_list(group_by))

----------------------------------------------------------------------------
(* One call of resolve_dependencies on every small registry and request *)

Names == {"a", "b", "c"}

\* argument lists of at most two names
ArgLists == {<<>>} \cup {<<n>> : n \in Names} \cup {<<n, m>> : n, m \in Names}

Def(args, agg, origin) == [args |-> args, agg |-> agg, origin |-> origin]

\* The registries the resolver is run on: "a" and "b" are unregistered or
\* registered (unqualified key) with any argument list; "c" is unregistered,
\* registered without arguments or registered over "a".
MemRegistries ==
    LET opt(n) == IF n = "c" THEN {<<"no">>, <<"yes", <<>>>>, <<"yes", <<"a">>>>}
                  ELSE {<<"no">>} \cup {<<"yes", al>> : al \in ArgLists}
    IN  {[k \in {KeyOf(NoModel, n) : n \in {m \in Names : ch[m][1] = "yes"}}
            |-> Def(ch[k[2]][2], FALSE, "mem")] :
         ch \in {f \in [Names -> UNION {opt(n) : n \in Names}] : \A n \in Names : f[n] \in opt(n)}}

\* The model's folder on disk: empty, or holding feature "c" over "a"; with
\* the store's current_model unset or set to the model.
DiskSetups ==
    {[disk |-> <<>>, cur |-> NoModel],
     [disk |-> [k \in {<<"m", "c">>} |-> Def(<<"a">>, FALSE, "disk:m")], cur |-> NoModel],
     [disk |-> [k \in {<<"m", "c">>} |-> Def(<<"a">>, FALSE, "disk:m")], cur |-> "m"]}

GroupBys == {GbNone, GbStr(<<>>), GbList(<<"a">>), GbStr(<<"b">>), GbList(<<"c">>)}

AvailableSets == {<<>>, <<"a">>, <<"b">>, <<"c">>, <<"a", "b">>, <<"a", "c">>, <<"b", "c">>, <<"a", "b", "c">>}

OutputLists == {<<"a">>, <<"a", "b">>, <<"b", "a">>, <<"c", "a">>}

NoCall == [op |-> "none"]

\* an empty DataFrame
EmptyTable == [cols |-> <<>>, rows |-> <<>>]

NoCfg == [model_name |-> NoModel, group_by |-> GbNone, ext_cols |-> <<>>,
          feature_args |-> <<>>, feature_groupby_flg |-> <<>>]

\* execute_model has not returned
NoOutput == [filters |-> EmptyTable, attrs |-> EmptyTable, input_dataset_name |-> "None",
             exec_fltrs |-> <<>>, exec_attrs |-> <<>>, returned |-> FALSE]

\* no feature definition handed to the detector
NoText == [callable |-> FALSE, source |-> "none", text |-> <<>>]

\* the detector before is_aggregation is called
DetectorIdle ==
    /\ feature_def = NoText
    /\ has_aggregation = "not called"

\* the engine before anything ran
EngineIdle ==
    /\ cfg = NoCfg
    /\ groups = <<>>
    /\ gi = 0
    /\ fi = 0
    /\ work = EmptyTable
    /\ agg_results = <<>>
    /\ filters_calculated = <<>>
    /\ grouped_results = <<>>
    /\ filters_df = EmptyTable
    /\ attrs_df = EmptyTable
    /\ calls = <<>>
    /\ output = NoOutput
    /\ ctx_models = <<>>

InitResolve ==
    /\ features \in MemRegistries
    /\ \E d \in DiskSetups : disk = d.disk /\ current_model = d.cur
    /\ feature_index = <<>>
    /\ output_cols \in OutputLists
    /\ available_cols \in AvailableSets
    /\ group_by \in GroupBys
    /\ req_model = "m"
    /\ input_cols = <<>>
    /\ expanded = <<>>
    /\ exec_seq = <<>>
    /\ rpc = "init"
    /\ last = NoCall
    /\ data_in = EmptyTable
    /\ ext_names = {}
    /\ epc = "idle"
    /\ ctx_datasets = <<>>
    /\ pipeline = <<>>
    /\ pstep = 0
    /\ EngineIdle
    /\ DetectorIdle

\* resolve_dependencies as one step: the plan and the store after it, or the
\* exception that left it
Resolve ==
    /\ rpc = "init"
    /\ LET r == resolve_dependencies
       IN  /\ rpc' = IF r.err = "ok" THEN "returned" ELSE r.err
           /\ input_cols' = IF r.err = "ok" THEN r.ic ELSE <<>>
           /\ exec_seq' = IF r.err = "ok" THEN r.es ELSE <<>>
           /\ expanded' = r.exp
           /\ features' = r.feats
           /\ feature_index' = IndexAfter(feature_index, disk, req_model)
    /\ UNCHANGED <<current_model, disk, output_cols, available_cols, group_by, req_model, last, engineVars, detVars>>

NextResolve == Resolve

SpecResolve == InitResolve /\ [][NextResolve]_vars

----------------------------------------------------------------------------
(* The registry operations, called in any order *)

StoreModels == {"A", "B"}
StoreNames == {"q"}

\* Definitions a caller registers from memory, told apart by their origin
MemDefs == {Def(<<>>, FALSE, "mem:1"), Def(<<>>, TRUE, "mem:2")}

\* Feature folders on disk: a common feature "q", with or without a folder of
\* the same name under model "A"
StoreDisks ==
    {[k \in {<<common_folder, "q">>} |-> Def(<<>>, FALSE, "disk:common")],
     [k \in {<<common_folder, "q">>, <<"A", "q">>} |->
         IF k[1] = "A" THEN Def(<<>>, FALSE, "disk:A") ELSE Def(<<>>, FALSE, "disk:common")]}

InitStore ==
    /\ features = <<>>
    /\ current_model = NoModel
    /\ feature_index = <<>>
    /\ disk \in StoreDisks
    /\ output_cols = <<>>
    /\ available_cols = <<>>
    /\ group_by = GbNone
    /\ req_model = NoModel
    /\ input_cols = <<>>
    /\ expanded = <<>>
    /\ exec_seq = <<>>
    /\ rpc = "idle"
    /\ last = NoCall
    /\ data_in = EmptyTable
    /\ ext_names = {}
    /\ epc = "idle"
    /\ ctx_datasets = <<>>
    /\ pipeline = <<>>
    /\ pstep = 0
    /\ EngineIdle
    /\ DetectorIdle

\* store.store_feature(name, feature_def, model)
StoreFeature ==
    \E name \in StoreNames, def \in MemDefs, m \in StoreModels \cup {NoModel} :
        /\ features' = store_feature(features, current_model, name, def, m)
        /\ last' = [op |-> "store_feature", name |-> name, model |-> m, def |-> def]
        /\ UNCHANGED <<current_model, feature_index, disk, resolveVars, engineVars, detVars>>

\* store.store_features({name: def}, model_name, auto_save=False): every
\* entry goes through store_feature(name, def) without the model name
StoreFeatures ==
    \E name \in StoreNames, def \in MemDefs, model_name \in StoreModels \cup {NoModel} :
        /\ features' = store_feature(features, current_model, name, def, NoModel)
        /\ last' = [op |-> "store_features", name |-> name, model |-> model_name, def |-> def]
        /\ UNCHANGED <<current_model, feature_index, disk, resolveVars, engineVars, detVars>>

\* store.load_from_filesystem(model, feature)
LoadFromFilesystem ==
    \E m \in StoreModels, feature \in StoreNames :
        /\ IF LoadFolder(disk, m, feature) = NoModel
              THEN /\ last' = [op |-> "load_from_filesystem:FileNotFoundError"]
                   /\ UNCHANGED features
              ELSE /\ features' = load_from_filesystem(features, current_model, disk, m, feature)
                   /\ last' = [op |-> "load_from_filesystem"]
        /\ UNCHANGED <<current_model, feature_index, disk, resolveVars, engineVars, detVars>>

\* store.load_common_features(): every folder of the common index is loaded
\* with model = 'common'; a failing load is logged and skipped
RECURSIVE LoadAll(_, _, _, _, _)
LoadAll(feats, cur, dsk, m, names) ==
    IF names = <<>> THEN feats
    ELSE LoadAll(IF LoadFolder(dsk, m, Head(names)) = NoModel THEN feats
                 ELSE load_from_filesystem(feats, cur, dsk, m, Head(names)),
                 cur, dsk, m, Tail(names))

load_common_features(feats, cur, fidx, dsk) ==
    LoadAll(feats, cur, dsk, common_folder, get_feature_index(fidx, dsk, common_folder))

LoadCommonFeatures ==
    /\ features' = load_common_features(features, current_model, feature_index, disk)
    /\ feature_index' = IndexAfter(feature_index, disk, common_folder)
    /\ last' = [op |-> "load_common_features"]
    /\ UNCHANGED <<current_model, disk, resolveVars, engineVars, detVars>>

\* store.load_model(model_name): sets the model context, then loads every
\* feature of the model's index (raises when the index is empty)
LoadModel ==
    \E m \in StoreModels :
        /\ current_model' = m
        /\ feature_index' = IndexAfter(feature_index, disk, m)
        /\ features' = LoadAll(features, m, disk, m, get_feature_index(feature_index, disk, m))
        /\ last' = IF get_feature_index(feature_index, disk, m) = <<>>
                   THEN [op |-> "load_model:FileNotFoundError"] ELSE [op |-> "load_model"]
        /\ UNCHANGED <<disk, resolveVars, engineVars, detVars>>

\* store.clear()
Clear ==
    /\ features' = <<>>
    /\ feature_index' = <<>>
    /\ last' = [op |-> "clear"]
    /\ UNCHANGED <<current_model, disk, resolveVars, engineVars, detVars>>

NextStore == StoreFeature \/ StoreFeatures \/ LoadFromFilesystem \/ LoadCommonFeatures
             \/ LoadModel \/ Clear

SpecStore == InitStore /\ [][NextStore]_vars

----------------------------------------------------------------------------
(* FeatureTypeDetector.is_aggregation over source texts *)

\* A source text is a sequence of characters. The characters of the model:
\* the ones of two keywords, upper-case forms of three of them, and one
\* character of no keyword.
Alphabet == {"#", "a", "g", "G", "b", "y", "Y", "x"}

MaxTextLen == 4

Texts == UNION {[1..n -> Alphabet] : n \in 0..MaxTextLen}

\* AGGREGATION_KEYWORDS, two of them: '#gby' and '#agg'
AGGREGATION_KEYWORDS == << <<"#", "g", "b", "y">>, <<"#", "a", "g", "g">> >>

\* str.lower() that leaves every character as it is
lower_AsIs(text) == text

\* str.lower()
lower(text) ==
    [i \in 1..Len(text) |->
        IF text[i] = "G" THEN "g" ELSE IF text[i] = "Y" THEN "y" ELSE text[i]]

\* Python's "keyword in text" for strings
IsSubstring(keyword, text) ==
    \E i \in 0..(Len(text) - Len(keyword)) : \A j \in 1..Len(keyword) : text[i + j] = keyword[j]

\* is_aggregation: a callable whose source cannot be read is no aggregation;
\* otherwise the lower-cased text is searched for every lower-cased keyword
FeatureTypeDetector_is_aggregation(fd) ==
    IF fd.callable /\ fd.source = "OSError" THEN FALSE
    ELSE LET feature_text_lower == lower(fd.text)
         IN  \E k \in 1..Len(AGGREGATION_KEYWORDS) :
                 IsSubstring(lower(AGGREGATION_KEYWORDS[k]), feature_text_lower)

\* the arguments: a source string, a callable with readable source, a
\* callable whose getsource raises
FeatureDefs ==
    {[callable |-> FALSE, source |-> "str", text |-> t] : t \in Texts}
    \cup {[callable |-> TRUE, source |-> "getsource", text |-> t] : t \in Texts}
    \cup {[callable |-> TRUE, source |-> "OSError", text |-> <<>>]}

InitDetect ==
    /\ features = <<>>
    /\ current_model = NoModel
    /\ feature_index = <<>>
    /\ disk = <<>>
    /\ output_cols = <<>>
    /\ available_cols = <<>>
    /\ group_by = GbNone
    /\ req_model = NoModel
    /\ input_cols = <<>>
    /\ expanded = <<>>
    /\ exec_seq = <<>>
    /\ rpc = "idle"
    /\ last = NoCall
    /\ data_in = EmptyTable
    /\ ext_names = {}
    /\ epc = "idle"
    /\ ctx_datasets = <<>>
    /\ pipeline = <<>>
    /\ pstep = 0
    /\ EngineIdle
    /\ feature_def \in FeatureDefs
    /\ has_aggregation = "not called"

\* detector.is_aggregation(feature_def)
IsAggregation ==
    /\ has_aggregation = "not called"
    /\ feature_def # NoText
    /\ has_aggregation' = IF FeatureTypeDetector_is_aggregation(feature_def) THEN "True" ELSE "False"
    /\ UNCHANGED <<feature_def, storeVars, resolveVars, last, engineVars>>

NextDetect == IsAggregation

SpecDetect == InitDetect /\ [][NextDetect]_vars

----------------------------------------------------------------------------
(* Tables and values *)

\* A cell value: a raw input value, the result of a feature body applied to
\* its arguments (bodies are opaque), or a whole-column array.
Raw(v) == [op |-> v, args |-> <<>>]
App(f, args) == [op |-> f, args |-> args]
Arr(vals) == [op |-> "array", args |-> vals]
NaN == Raw("nan")

HasCol(t, c) == InSeq(c, t.cols)

\* df[c].values
ColValues(t, c) == [i \in 1..Len(t.rows) |-> t.rows[i][c]]

\* df[c] = vals: overwrite the column in place, or append it as the last one
SetCol(t, c, vals) ==
    [cols |-> AppendNew(t.cols, c),
     rows |-> [i \in 1..Len(t.rows) |->
                 [d \in (DOMAIN t.rows[i]) \cup {c} |-> IF d = c THEN vals[i] ELSE t.rows[i][d]]]]

\* the frame without the columns cs (groupby(...).apply(include_groups=False))
DropCols(t, cs) ==
    [cols |-> SelectSeq(t.cols, LAMBDA c : ~InSeq(c, cs)),
     rows |-> [i \in 1..Len(t.rows) |-> [d \in (DOMAIN t.rows[i]) \ Range(cs) |-> t.rows[i][d]]]]

\* df.empty: no rows or no columns
IsEmptyTable(t) == Len(t.rows) = 0 \/ Len(t.cols) = 0

\* the order groupby iterates keys in: sorted by value
ValueOrder == <<"k1", "k2", "e1", "e2", "x1", "x2", "x3", "p1", "p2", "p3">>
Rank(v) == IndexOf(ValueOrder, v.op)

RECURSIVE KeyLess(_, _)
KeyLess(k1, k2) ==
    IF k1 = <<>> \/ k2 = <<>> THEN FALSE
    ELSE IF Rank(Head(k1)) # Rank(Head(k2)) THEN Rank(Head(k1)) < Rank(Head(k2))
    ELSE KeyLess(Tail(k1), Tail(k2))

RECURSIVE SortKeys(_)
SortKeys(S) == IF S = {} THEN <<>>
               ELSE LET m == CHOOSE k \in S : \A o \in S : ~KeyLess(o, k)
                    IN  <<m>> \o SortKeys(S \ {m})

GroupKey(row, gcols) == [i \in 1..Len(gcols) |-> row[gcols[i]]]

\* a key with a missing component
IsNullKey(key) == \E i \in 1..Len(key) : key[i] = NaN

\* data_in.groupby(group_by_col): the keys, sorted; the default dropna=True
\* leaves the rows with a missing key component out of every group
GroupKeys(t, gcols) ==
    SortKeys({k \in {GroupKey(t.rows[i], gcols) : i \in 1..Len(t.rows)} : ~IsNullKey(k)})

\* a group frame holding every row of the table
GroupFrame_AllRows(t, gcols, key) == DropCols(t, gcols)

\* the rows of one group, in their original order, without the group-by columns
GroupFrame(t, gcols, key) ==
    DropCols([cols |-> t.cols,
              rows |-> SelectSeq(t.rows, LAMBDA r : GroupKey(r, gcols) = key)], gcols)

----------------------------------------------------------------------------
(* FeatureTypeDetector, FeatureAnalyzer, FeatureCalculator *)

\* is_aggregation: does the feature's source text hold an aggregation keyword
is_aggregation(def) == def.agg

\* analyze_features(exec_seq, data_in_columns, model_name): metadata of the
\* features of exec_seq that are not input columns and are found in the store
AnalyzedNames(es, cols, feats, cur, model_name) ==
    {f \in Range(es) : ~InSeq(f, cols) /\ get_feature(feats, cur, f, model_name) # NoDef}

analyze_features(es, cols, feats, cur, model_name) ==
    [feature_args |-> [f \in AnalyzedNames(es, cols, feats, cur, model_name) |->
                          get_feature(feats, cur, f, model_name).args],
     feature_groupby_flg |-> [f \in AnalyzedNames(es, cols, feats, cur, model_name) |->
                          is_aggregation(get_feature(feats, cur, f, model_name))]]

\* one argument of one row under np.vectorize: arrays are indexed, scalars broadcast
RowArg(d, r) == IF d.op = "array" THEN d.args[r] ELSE d

\* calculate_filter: np.vectorize(func)(*args_data), one value per row
calculate_filter(feature, args_data, nrows) ==
    [r \in 1..nrows |-> App(feature, [j \in 1..Len(args_data) |-> RowArg(args_data[j], r)])]

\* calculate_attribute: func(*args_data), called once
calculate_attribute(feature, args_data) == App(feature, args_data)

----------------------------------------------------------------------------
(* ModelExecutor and GroupByProcessor *)

\* execute_model: normalize_to_list(group_by, [None, '', []], to_none=True)
normalize_group_by(g) ==
    IF g.kind = "None" \/ g.cols = <<>> THEN GbNone ELSE GbList(g.cols)

\* _extract_external_columns: the input columns that start with the prefix of
\* a configured external source
extract_external_columns(ic, ext) == SelectSeq(ic, LAMBDA c : c \in ext)

\* the enrichment test against None only
IsEnrichment_NoneOnly(g) == g.kind = "None"

\* process_all_groups: "group_by_col is None or == [] or == ''"
IsEnrichment(g) == g.kind = "None" \/ g.cols = <<>>

\* an argument loop that takes the column of a one-row frame for a scalar
RECURSIVE PrepareArgs_Squeeze(_, _, _, _, _, _)
PrepareArgs_Squeeze(args, i, acc, tbl, agg, ext) ==
    IF i > Len(args) \/ acc.err # "ok" THEN acc
    ELSE LET arg == args[i]
         IN  IF arg \in DOMAIN agg
             THEN PrepareArgs_Squeeze(args, i + 1,
                      [acc EXCEPT !.out_flg = TRUE, !.data = Append(@, agg[arg])], tbl, agg, ext)
             ELSE IF ~HasCol(tbl, arg)
             THEN [acc EXCEPT !.err = IF InSeq(arg, ext) THEN "KeyError" ELSE "ValueError"]
             ELSE IF InSeq(arg, ext) \/ Len(tbl.rows) = 1
             THEN PrepareArgs_Squeeze(args, i + 1,
                      [acc EXCEPT !.out_flg = TRUE, !.data = Append(@, tbl.rows[1][arg])], tbl, agg, ext)
             ELSE PrepareArgs_Squeeze(args, i + 1,
                      [acc EXCEPT !.in_flg = TRUE, !.data = Append(@, Arr(ColValues(tbl, arg)))], tbl, agg, ext)

\* an argument loop that looks in the row table before the external column list
RECURSIVE PrepareArgs_RowFirst(_, _, _, _, _, _)
PrepareArgs_RowFirst(args, i, acc, tbl, agg, ext) ==
    IF i > Len(args) \/ acc.err # "ok" THEN acc
    ELSE LET arg == args[i]
         IN  IF arg \in DOMAIN agg
             THEN PrepareArgs_RowFirst(args, i + 1,
                      [acc EXCEPT !.out_flg = TRUE, !.data = Append(@, agg[arg])], tbl, agg, ext)
             ELSE IF HasCol(tbl, arg)
             THEN PrepareArgs_RowFirst(args, i + 1,
                      [acc EXCEPT !.in_flg = TRUE, !.data = Append(@, Arr(ColValues(tbl, arg)))], tbl, agg, ext)
             ELSE IF InSeq(arg, ext) THEN [acc EXCEPT !.err = "KeyError"]
             ELSE [acc EXCEPT !.err = "ValueError"]

\* The argument loop of process_group: each argument is looked up in
\* agg_results, then in the external column list, then in the row table.
RECURSIVE PrepareArgs(_, _, _, _, _, _)
PrepareArgs(args, i, acc, tbl, agg, ext) ==
    IF i > Len(args) \/ acc.err # "ok" THEN acc
    ELSE LET arg == args[i]
         IN  IF arg \in DOMAIN agg
             THEN PrepareArgs(args, i + 1,
                      [acc EXCEPT !.out_flg = TRUE, !.data = Append(@, agg[arg])], tbl, agg, ext)
             ELSE IF InSeq(arg, ext)
             THEN IF ~HasCol(tbl, arg) THEN [acc EXCEPT !.err = "KeyError"]
                  ELSE IF Len(tbl.rows) = 0 THEN [acc EXCEPT !.err = "IndexError"]
                  ELSE PrepareArgs(args, i + 1,
                      [acc EXCEPT !.out_flg = TRUE, !.data = Append(@, tbl.rows[1][arg])], tbl, agg, ext)
             ELSE IF HasCol(tbl, arg)
             THEN PrepareArgs(args, i + 1,
                      [acc EXCEPT !.in_flg = TRUE, !.data = Append(@, Arr(ColValues(tbl, arg)))], tbl, agg, ext)
             ELSE [acc EXCEPT !.err = "ValueError"]

ArgsStart == [data |-> <<>>, in_flg |-> FALSE, out_flg |-> FALSE, err |-> "ok"]

\* the decision without the aggregation flag
IsFilterCase_IgnoreAgg(in_flg, out_flg, groupby_flg) == in_flg

\* the decision taking a feature that reads a scalar for an attribute
IsFilterCase_NoOut(in_flg, out_flg, groupby_flg) == in_flg /\ ~out_flg /\ ~groupby_flg

\* the 4-case decision
IsFilterCase(in_flg, out_flg, groupby_flg) == in_flg /\ ~groupby_flg

\* a loop body that keeps every result both as a scalar and as a column
process_group_feature_Both(f, tbl, agg, fc, c) ==
    LET same == [work |-> tbl, agg |-> agg, fc |-> fc, call |-> <<>>, err |-> "ok"]
    IN  IF f \notin DOMAIN c.feature_args THEN [same EXCEPT !.err = "KeyError"]
        ELSE LET a == PrepareArgs(c.feature_args[f], 1, ArgsStart, tbl, agg, c.ext_cols)
             IN  IF a.err # "ok" THEN [same EXCEPT !.err = a.err]
                 ELSE [same EXCEPT
                         !.work = SetCol(tbl, f, calculate_filter(f, a.data, Len(tbl.rows))),
                         !.agg = [k \in (DOMAIN agg) \cup {f} |->
                                     IF k = f THEN calculate_attribute(f, a.data) ELSE agg[k]],
                         !.fc = Append(fc, f),
                         !.call = <<[f |-> f, kind |-> "filter", agg |-> c.feature_groupby_flg[f],
                                     in_flg |-> a.in_flg, out_flg |-> a.out_flg, data |-> a.data]>>]

\* process_group's loop body for a feature that is not skipped: look up
\* func, args and flag, prepare the arguments, decide, calculate, store
process_group_feature(f, tbl, agg, fc, c) ==
    LET same == [work |-> tbl, agg |-> agg, fc |-> fc, call |-> <<>>, err |-> "ok"]
    IN  IF f \notin DOMAIN c.feature_args THEN [same EXCEPT !.err = "KeyError"]
        ELSE LET a == PrepareArgs(c.feature_args[f], 1, ArgsStart, tbl, agg, c.ext_cols)
                 flg == c.feature_groupby_flg[f]
             IN  IF a.err # "ok" THEN [same EXCEPT !.err = a.err]
                 ELSE IF IsFilterCase(a.in_flg, a.out_flg, flg)
                 THEN [same EXCEPT
                         !.work = SetCol(tbl, f, calculate_filter(f, a.data, Len(tbl.rows))),
                         !.fc = Append(fc, f),
                         !.call = <<[f |-> f, kind |-> "filter", agg |-> flg,
                                     in_flg |-> a.in_flg, out_flg |-> a.out_flg, data |-> a.data]>>]
                 ELSE [same EXCEPT
                         !.agg = [k \in (DOMAIN agg) \cup {f} |->
                                     IF k = f THEN calculate_attribute(f, a.data) ELSE agg[k]],
                         !.call = <<[f |-> f, kind |-> "attribute", agg |-> flg,
                                     in_flg |-> a.in_flg, out_flg |-> a.out_flg, data |-> a.data]>>]

\* the loop body without the "already in data_in" test
process_group_step_NoSkip(f, tbl, agg, fc, c) == process_group_feature(f, tbl, agg, fc, c)

\* One iteration of process_group's loop over exec_seq for feature f: the
\* working state after it, the calculator call it made and the exception, if any.
process_group_step(f, tbl, agg, fc, c) ==
    IF HasCol(tbl, f)
    THEN [work |-> tbl, agg |-> agg, fc |-> fc, call |-> <<>>, err |-> "ok"]
    ELSE process_group_feature(f, tbl, agg, fc, c)

\* The argument loop of _process_no_grouping: row table columns only
RECURSIVE PrepareArgsEnrich(_, _, _, _)
PrepareArgsEnrich(args, i, acc, tbl) ==
    IF i > Len(args) \/ acc.err # "ok" THEN acc
    ELSE IF HasCol(tbl, args[i])
         THEN PrepareArgsEnrich(args, i + 1,
                  [acc EXCEPT !.in_flg = TRUE, !.data = Append(@, Arr(ColValues(tbl, args[i])))], tbl)
         ELSE [acc EXCEPT !.err = "ValueError"]

\* _process_no_grouping's loop body past the skips: prepare the arguments,
\* calculate the filter, append the column
enrich_filter(f, tbl, fc, c) ==
    LET same == [work |-> tbl, fc |-> fc, call |-> <<>>, err |-> "ok", skipped |-> FALSE]
        a == PrepareArgsEnrich(c.feature_args[f], 1, ArgsStart, tbl)
    IN  IF a.err # "ok" THEN [same EXCEPT !.err = a.err]
        ELSE [same EXCEPT
                !.work = SetCol(tbl, f, calculate_filter(f, a.data, Len(tbl.rows))),
                !.fc = Append(fc, f),
                !.call = <<[f |-> f, kind |-> "filter", agg |-> c.feature_groupby_flg[f],
                            in_flg |-> a.in_flg, out_flg |-> FALSE, data |-> a.data]>>]

\* the loop body without the skip of aggregation features
process_no_grouping_step_NoSkip(f, tbl, fc, c) ==
    LET same == [work |-> tbl, fc |-> fc, call |-> <<>>, err |-> "ok", skipped |-> FALSE]
    IN  IF HasCol(tbl, f) THEN same
        ELSE IF f \notin DOMAIN c.feature_args THEN [same EXCEPT !.err = "KeyError"]
        ELSE enrich_filter(f, tbl, fc, c)

\* One iteration of _process_no_grouping's loop for feature f
process_no_grouping_step(f, tbl, fc, c) ==
    LET same == [work |-> tbl, fc |-> fc, call |-> <<>>, err |-> "ok", skipped |-> FALSE]
    IN  IF HasCol(tbl, f) THEN same
        ELSE IF f \notin DOMAIN c.feature_args THEN [same EXCEPT !.err = "KeyError"]
        ELSE IF c.feature_groupby_flg[f] THEN [same EXCEPT !.skipped = TRUE]
        ELSE enrich_filter(f, tbl, fc, c)

----------------------------------------------------------------------------
(* GabedaContext: named datasets and model outputs *)

initial_dataset_name == "preprocessed"

\* df[cols]
SelectCols(t, cs) ==
    [cols |-> cs, rows |-> [i \in 1..Len(t.rows) |-> [c \in Range(cs) |-> t.rows[i][c]]]]

\* get_dataset: "<model>_input" stands for the input dataset of a stored
\* model, any other name for itself
DatasetKey(models, name) ==
    IF \E m \in DOMAIN models : name = m \o "_input"
    THEN models[CHOOSE m \in DOMAIN models : name = m \o "_input"].input_dataset_name
    ELSE name

\* get_dataset(name) is not None
has_dataset(models, datasets, name) == DatasetKey(models, name) \in DOMAIN datasets

get_dataset(models, datasets, name) == datasets[DatasetKey(models, name)]

\* set_dataset
set_dataset(datasets, name, df) ==
    [n \in (DOMAIN datasets) \cup {name} |-> IF n = name THEN df ELSE datasets[n]]

\* _update_exec_tracking: the columns of a non-empty frame that are not
\* group-by columns (no row_id is configured)
exec_tracking(df, gb) ==
    IF IsEmptyTable(df) THEN <<>>
    ELSE SelectSeq(df.cols, LAMBDA col : ~InSeq(col, normalize_to_list(gb)))

\* set_model_output, filters part: the new filter columns are stored as
\* "<model>_filters" when there are any
store_filters(datasets, model_name, out) ==
    LET cols_to_keep == SelectSeq(out.exec_fltrs, LAMBDA col : InSeq(col, out.filters.cols))
    IN  IF IsEmptyTable(out.filters) \/ out.exec_fltrs = <<>> \/ cols_to_keep = <<>>
        THEN datasets
        ELSE set_dataset(datasets, model_name \o "_filters", SelectCols(out.filters, cols_to_keep))

\* set_model_output, attrs part: the columns outside exec_attrs, then the
\* new attribute columns, are stored as "<model>_attrs"
store_attrs(datasets, model_name, out) ==
    LET cols_to_keep == SelectSeq(out.attrs.cols, LAMBDA col : ~InSeq(col, out.exec_attrs))
                        \o SelectSeq(out.exec_attrs, LAMBDA col : InSeq(col, out.attrs.cols))
    IN  IF IsEmptyTable(out.attrs) THEN datasets
        ELSE set_dataset(datasets, model_name \o "_attrs", SelectCols(out.attrs, cols_to_keep))

----------------------------------------------------------------------------
(* Resolve, analyze and execute one model over a small table *)

\* the input: group key "k", row column "x", column "e" (joined from an
\* external source when ext_names holds it); the groups are interleaved
BaseTable ==
    [cols |-> <<"k", "x", "e">>,
     rows |-> << [c \in {"k", "x", "e"} |-> Raw(IF c = "k" THEN "k1" ELSE IF c = "x" THEN "x1" ELSE "e1")],
                 [c \in {"k", "x", "e"} |-> Raw(IF c = "k" THEN "k2" ELSE IF c = "x" THEN "x2" ELSE "e2")],
                 [c \in {"k", "x", "e"} |-> Raw(IF c = "k" THEN "k1" ELSE IF c = "x" THEN "x3" ELSE "e1")] >>]

\* the same input with a column named like feature "a" already present
\* (a dataset that was enriched before)
PrecomputedTable == SetCol(BaseTable, "a", <<Raw("p1"), Raw("p2"), Raw("p3")>>)

EngineTables == {BaseTable, PrecomputedTable}

\* The registries of the engine runs (unqualified keys): "a" over columns,
\* "b" over "a" and columns, "c" absent or over "b"
EngineRegistries ==
    LET aDefs == {Def(al, g, "mem") : al \in {<<>>, <<"x">>, <<"k">>, <<"e">>, <<"x", "e">>}, g \in BOOLEAN}
        bDefs == {Def(al, g, "mem") : al \in {<<"a">>, <<"x", "a">>, <<"e", "a">>, <<"x">>}, g \in BOOLEAN}
        cDefs == {Def(al, FALSE, "mem") : al \in {<<"a", "b">>, <<"x", "b">>}}
    IN  {[k \in {KeyOf(NoModel, "a"), KeyOf(NoModel, "b")} |-> IF k[2] = "a" THEN da ELSE db] :
            da \in aDefs, db \in bDefs}
        \cup
        {[k \in {KeyOf(NoModel, "a"), KeyOf(NoModel, "b"), KeyOf(NoModel, "c")} |->
            IF k[2] = "a" THEN da ELSE IF k[2] = "b" THEN db ELSE dc] :
            da \in aDefs, db \in bDefs, dc \in cDefs}

EngineGroupBys == {GbNone, GbStr(<<>>), GbList(<<>>), GbStr(<<"k">>), GbList(<<"k">>)}

EngineOutputs == {<<"c", "b", "a">>, <<"b">>}

InitEngine ==
    /\ features \in EngineRegistries
    /\ current_model = NoModel
    /\ feature_index = <<>>
    /\ disk = <<>>
    /\ data_in \in EngineTables
    \* the caller resolves against the raw input columns
    /\ available_cols = BaseTable.cols
    /\ output_cols \in EngineOutputs
    /\ group_by \in EngineGroupBys
    /\ ext_names \in {{}, {"e"}}
    /\ req_model = "m"
    /\ input_cols = <<>>
    /\ expanded = <<>>
    /\ exec_seq = <<>>
    /\ rpc = "init"
    /\ last = NoCall
    /\ epc = "idle"
    /\ ctx_datasets = [n \in {initial_dataset_name} |-> data_in]
    /\ pipeline = <<>>
    /\ pstep = 0
    /\ EngineIdle
    /\ DetectorIdle

\* execute_single_model and execute_model up to the call of
\* process_all_groups: the input is read from the context, cfg_model carries
\* the plan, group_by is normalized and the features are analyzed
execute_model_start(model_name, es, gb, ic, input_dataset_name) ==
    IF ~has_dataset(ctx_models, ctx_datasets, input_dataset_name)
    THEN /\ epc' = "ValueError"
         /\ UNCHANGED <<data_in, cfg>>
    ELSE LET df == get_dataset(ctx_models, ctx_datasets, input_dataset_name)
             an == analyze_features(es, df.cols, features, current_model, model_name)
         IN  /\ data_in' = df
             /\ cfg' = [model_name |-> model_name,
                        group_by |-> normalize_group_by(gb),
                        ext_cols |-> extract_external_columns(ic, ext_names),
                        feature_args |-> an.feature_args,
                        feature_groupby_flg |-> an.feature_groupby_flg]
             /\ epc' = "analyzed"

\* execute_single_model(model, cfg_model, 'preprocessed') with the plan the
\* resolver returned
ExecuteModel ==
    /\ rpc = "returned"
    /\ epc = "idle"
    /\ execute_model_start(req_model, exec_seq, group_by, input_cols, initial_dataset_name)
    /\ UNCHANGED <<detVars, storeVars, resolveVars, last, orchVars, ext_names, groups, gi, fi, work,
                   agg_results, filters_calculated, grouped_results, filters_df, attrs_df, calls>>

\* A caller that analyzes the features itself and hands process_all_groups
\* its own cfg_model, with group_by as it wrote it
CallerAnalyze ==
    /\ rpc = "returned"
    /\ epc = "idle"
    /\ LET an == analyze_features(exec_seq, data_in.cols, features, current_model, req_model)
       IN  cfg' = [model_name |-> NoModel,
                   group_by |-> group_by,
                   ext_cols |-> extract_external_columns(input_cols, ext_names),
                   feature_args |-> an.feature_args,
                   feature_groupby_flg |-> an.feature_groupby_flg]
    /\ epc' = "analyzed"
    /\ UNCHANGED <<detVars, storeVars, resolveVars, last, orchVars, data_in, ext_names, groups, gi, fi, work,
                   agg_results, filters_calculated, grouped_results, filters_df, attrs_df, calls>>

\* process_all_groups up to the first feature: enrichment mode works on a copy
\* of the whole table, grouped mode on the first group's frame
ProcessAllGroups ==
    /\ epc = "analyzed"
    /\ IF IsEnrichment(cfg.group_by)
       THEN /\ epc' = "enrich"
            /\ work' = data_in
            /\ groups' = <<>>
            /\ gi' = 0
            /\ fi' = 1
       ELSE IF \E c \in Range(cfg.group_by.cols) : ~HasCol(data_in, c)
       THEN /\ epc' = "KeyError"
            /\ UNCHANGED <<work, groups, gi, fi>>
       ELSE /\ epc' = "group"
            /\ groups' = GroupKeys(data_in, cfg.group_by.cols)
            /\ gi' = 1
            /\ fi' = 1
            /\ work' = GroupFrame(data_in, cfg.group_by.cols, GroupKeys(data_in, cfg.group_by.cols)[1])
    /\ UNCHANGED <<detVars, storeVars, resolveVars, last, orchVars, data_in, ext_names, cfg, agg_results,
                   filters_calculated, grouped_results, filters_df, attrs_df, calls>>

\* a loop body that logs an exception and goes on with the next feature
ProcessGroupStep_Swallow ==
    /\ epc = "group"
    /\ fi <= Len(exec_seq)
    /\ LET r == process_group_step(exec_seq[fi], work, agg_results, filters_calculated, cfg)
       IN  /\ work' = r.work
           /\ agg_results' = r.agg
           /\ filters_calculated' = r.fc
           /\ calls' = calls \o [i \in 1..Len(r.call) |-> [g |-> gi, c |-> r.call[i]]]
           /\ epc' = "group"
           /\ fi' = fi + 1
    /\ UNCHANGED <<detVars, storeVars, resolveVars, last, orchVars, data_in, ext_names, cfg, groups, gi,
                   grouped_results, filters_df, attrs_df>>

\* process_group: one pass of the loop body, for feature exec_seq[fi] of group gi
ProcessGroupStep ==
    /\ epc = "group"
    /\ fi <= Len(exec_seq)
    /\ LET r == process_group_step(exec_seq[fi], work, agg_results, filters_calculated, cfg)
       IN  \/ /\ work' = r.work
              /\ agg_results' = r.agg
              /\ filters_calculated' = r.fc
              /\ calls' = calls \o [i \in 1..Len(r.call) |-> [g |-> gi, c |-> r.call[i]]]
              /\ epc' = IF r.err = "ok" THEN "group" ELSE r.err
              /\ fi' = IF r.err = "ok" THEN fi + 1 ELSE fi
           \* the feature's function raises: the calculator logs and re-raises
           \/ /\ r.call # <<>>
              /\ epc' = "Exception"
              /\ UNCHANGED <<work, agg_results, filters_calculated, calls, fi>>
    /\ UNCHANGED <<detVars, storeVars, resolveVars, last, orchVars, data_in, ext_names, cfg, groups, gi,
                   grouped_results, filters_df, attrs_df>>

\* process_group returns its result; the next group starts from fresh state
ProcessGroupReturn ==
    /\ epc = "group"
    /\ fi > Len(exec_seq)
    /\ grouped_results' = Append(grouped_results,
           [key |-> groups[gi], data_in |-> work, agg_results |-> agg_results,
            filters_calculated |-> filters_calculated])
    /\ agg_results' = <<>>
    /\ filters_calculated' = <<>>
    /\ fi' = 1
    /\ IF gi < Len(groups)
       THEN /\ gi' = gi + 1
            /\ work' = GroupFrame(data_in, cfg.group_by.cols, groups[gi + 1])
            /\ epc' = "group"
       ELSE /\ gi' = gi
            /\ work' = EmptyTable
            /\ epc' = "combine"
    /\ UNCHANGED <<detVars, storeVars, resolveVars, last, orchVars, data_in, ext_names, cfg, groups,
                   filters_df, attrs_df, calls>>

\* pd.concat of frames: the union of the columns in order of first
\* appearance, the rows in order, NaN where a frame lacks a column
RECURSIVE ConcatCols(_)
ConcatCols(ts) == IF ts = <<>> THEN <<>>
                  ELSE LET rest == ConcatCols(Tail(ts))
                       IN  Head(ts).cols \o SelectSeq(rest, LAMBDA c : ~InSeq(c, Head(ts).cols))

RECURSIVE ConcatRows(_, _)
ConcatRows(ts, cs) ==
    IF ts = <<>> THEN <<>>
    ELSE [i \in 1..Len(Head(ts).rows) |->
             [c \in cs |-> IF c \in DOMAIN Head(ts).rows[i] THEN Head(ts).rows[i][c] ELSE NaN]]
         \o ConcatRows(Tail(ts), cs)

Concat(ts) == [cols |-> ConcatCols(ts), rows |-> ConcatRows(ts, Range(ConcatCols(ts)))]

\* df[col] = group_value[i] for every group-by column
RECURSIVE AttachKey(_, _, _, _)
AttachKey(t, gcols, key, i) ==
    IF i > Len(gcols) THEN t
    ELSE AttachKey(SetCol(t, gcols[i], [r \in 1..Len(t.rows) |-> key[i]]), gcols, key, i + 1)

\* df.dropna(axis=1, how='all'): the frame without its all-NaN columns
dropna_columns(t) ==
    LET keep == SelectSeq(t.cols, LAMBDA c : \E i \in 1..Len(t.rows) : t.rows[i][c] # NaN)
    IN  [cols |-> keep,
         rows |-> [i \in 1..Len(t.rows) |-> [c \in Range(keep) |-> t.rows[i][c]]]]

\* the non-empty group frames with their key re-attached, all-NaN columns dropped
RECURSIVE KeyedFrames(_, _)
KeyedFrames(res, gcols) ==
    IF res = <<>> THEN <<>>
    ELSE (IF IsEmptyTable(Head(res).data_in) THEN <<>>
          ELSE <<dropna_columns(AttachKey(Head(res).data_in, gcols, Head(res).key, 1))>>)
         \o KeyedFrames(Tail(res), gcols)

\* one attrs row per group: the key columns, updated with agg_results
AttrRow(r, gcols) ==
    [c \in Range(gcols) \cup DOMAIN r.agg_results |->
        IF c \in DOMAIN r.agg_results THEN r.agg_results[c]
        ELSE r.key[IndexOf(gcols, c)]]

AttrFrame(r, gcols, es) ==
    [cols |-> gcols \o SelectSeq(es, LAMBDA f : f \in DOMAIN r.agg_results /\ ~InSeq(f, gcols)),
     rows |-> <<AttrRow(r, gcols)>>]

\* process_all_groups after the last group: filters_df and attrs_df
Combine ==
    /\ epc = "combine"
    /\ filters_df' = Concat(KeyedFrames(grouped_results, cfg.group_by.cols))
    /\ attrs_df' = Concat([i \in 1..Len(grouped_results) |->
                              AttrFrame(grouped_results[i], cfg.group_by.cols, exec_seq)])
    /\ epc' = "done"
    /\ UNCHANGED <<detVars, storeVars, resolveVars, last, orchVars, data_in, ext_names, cfg, groups, gi, fi, work,
                   agg_results, filters_calculated, grouped_results, calls>>

\* a loop body that appends the column to the table it was given, without a copy
EnrichStep_InPlace ==
    /\ epc = "enrich"
    /\ fi <= Len(exec_seq)
    /\ LET r == process_no_grouping_step(exec_seq[fi], work, filters_calculated, cfg)
       IN  /\ work' = r.work
           /\ data_in' = r.work
           /\ filters_calculated' = r.fc
           /\ calls' = calls \o [i \in 1..Len(r.call) |-> [g |-> 0, c |-> r.call[i]]]
           /\ epc' = IF r.err = "ok" THEN "enrich" ELSE r.err
           /\ fi' = IF r.err = "ok" THEN fi + 1 ELSE fi
    /\ UNCHANGED <<detVars, storeVars, resolveVars, last, orchVars, ext_names, cfg, groups, gi,
                   agg_results, grouped_results, filters_df, attrs_df>>

\* _process_no_grouping: one pass of the loop body, for feature exec_seq[fi]
EnrichStep ==
    /\ epc = "enrich"
    /\ fi <= Len(exec_seq)
    /\ LET r == process_no_grouping_step(exec_seq[fi], work, filters_calculated, cfg)
       IN  \/ /\ work' = r.work
              /\ filters_calculated' = r.fc
              /\ calls' = calls \o [i \in 1..Len(r.call) |-> [g |-> 0, c |-> r.call[i]]]
              /\ epc' = IF r.err = "ok" THEN "enrich" ELSE r.err
              /\ fi' = IF r.err = "ok" THEN fi + 1 ELSE fi
           \* the feature's function raises: the calculator logs and re-raises
           \/ /\ r.call # <<>>
              /\ epc' = "Exception"
              /\ UNCHANGED <<work, filters_calculated, calls, fi>>
    /\ UNCHANGED <<detVars, storeVars, resolveVars, last, orchVars, data_in, ext_names, cfg, groups, gi,
                   agg_results, grouped_results, filters_df, attrs_df>>

\* _process_no_grouping returns (data_enriched, empty DataFrame)
EnrichReturn ==
    /\ epc = "enrich"
    /\ fi > Len(exec_seq)
    /\ filters_df' = work
    /\ attrs_df' = EmptyTable
    /\ epc' = "done"
    /\ UNCHANGED <<detVars, storeVars, resolveVars, last, orchVars, data_in, ext_names, cfg, groups, gi, fi, work,
                   agg_results, filters_calculated, grouped_results, calls>>

\* the input_dataset_name argument of the execute_single_model call in progress
InputDatasetName == IF pstep = 0 THEN initial_dataset_name ELSE pipeline[pstep].input_dataset

\* execute_model after process_all_groups returned: exec tracking and the
\* output dict, an empty frame becoming None
ExecuteReturn ==
    /\ epc = "done"
    /\ cfg.model_name # NoModel
    /\ output' = [filters |-> IF IsEmptyTable(filters_df) THEN EmptyTable ELSE filters_df,
                  attrs |-> IF IsEmptyTable(attrs_df) THEN EmptyTable ELSE attrs_df,
                  input_dataset_name |-> InputDatasetName,
                  exec_fltrs |-> exec_tracking(filters_df, cfg.group_by),
                  exec_attrs |-> exec_tracking(attrs_df, cfg.group_by),
                  returned |-> TRUE]
    /\ epc' = "returned"
    /\ UNCHANGED <<detVars, storeVars, resolveVars, last, data_in, ext_names, cfg, groups, gi, fi, work,
                   agg_results, filters_calculated, grouped_results, filters_df, attrs_df, calls,
                   ctx_models, ctx_datasets, pipeline, pstep>>

\* execute_single_model after execute_model returned: set_model_output
\* records the model and stores its new columns as datasets
SetModelOutput ==
    /\ epc = "returned"
    /\ ctx_models' = [m \in (DOMAIN ctx_models) \cup {cfg.model_name} |->
                         IF m = cfg.model_name
                         THEN [outputs |-> output, input_dataset_name |-> output.input_dataset_name]
                         ELSE ctx_models[m]]
    /\ ctx_datasets' = store_attrs(store_filters(ctx_datasets, cfg.model_name, output),
                                   cfg.model_name, output)
    /\ epc' = "stored"
    /\ pstep' = IF pstep = 0 THEN 0 ELSE pstep + 1
    /\ UNCHANGED <<detVars, storeVars, resolveVars, last, data_in, ext_names, cfg, groups, gi, fi, work,
                   agg_results, filters_calculated, grouped_results, filters_df, attrs_df, calls,
                   output, pipeline>>

NextEngine == Resolve \/ ExecuteModel \/ CallerAnalyze \/ ProcessAllGroups \/ ProcessGroupStep
              \/ ProcessGroupReturn \/ Combine \/ EnrichStep \/ EnrichReturn
              \/ ExecuteReturn \/ SetModelOutput

SpecEngine == InitEngine /\ [][NextEngine]_vars

----------------------------------------------------------------------------
(* Grouped runs over one and two group-by columns *)

\* the input with a missing group key in its last row
NullKeyTable ==
    [BaseTable EXCEPT !.rows[3] = [c \in {"k", "x", "e"} |->
                                      IF c = "k" THEN NaN ELSE BaseTable.rows[3][c]]]

\* the input with two values of "e" under one value of "k"
TwoColumnTable ==
    [BaseTable EXCEPT !.rows[3] = [c \in {"k", "x", "e"} |->
                                      IF c = "e" THEN Raw("e2") ELSE BaseTable.rows[3][c]]]

GroupedTables == {BaseTable, PrecomputedTable, NullKeyTable, TwoColumnTable}

\* the group-by settings: one or two raw columns, and a column that is named
\* like a feature (the precomputed column "a")
GroupedGroupBys == {GbStr(<<"k">>), GbList(<<"k">>), GbList(<<"k", "e">>), GbList(<<"e", "k">>),
                    GbStr(<<"a">>)}

InitGrouped ==
    /\ features \in EngineRegistries
    /\ current_model = NoModel
    /\ feature_index = <<>>
    /\ disk = <<>>
    /\ data_in \in GroupedTables
    /\ available_cols = BaseTable.cols
    /\ output_cols \in EngineOutputs
    /\ group_by \in GroupedGroupBys
    /\ ext_names = {}
    /\ req_model = "m"
    /\ input_cols = <<>>
    /\ expanded = <<>>
    /\ exec_seq = <<>>
    /\ rpc = "init"
    /\ last = NoCall
    /\ epc = "idle"
    /\ ctx_datasets = [n \in {initial_dataset_name} |-> data_in]
    /\ pipeline = <<>>
    /\ pstep = 0
    /\ EngineIdle
    /\ DetectorIdle

NextGrouped == Resolve \/ ExecuteModel \/ ProcessAllGroups \/ ProcessGroupStep
               \/ ProcessGroupReturn \/ Combine \/ ExecuteReturn \/ SetModelOutput

SpecGrouped == InitGrouped /\ [][NextGrouped]_vars


\* process_all_groups is one call: its loop over the groups and over exec_seq
\* goes on while it can, and the concatenation follows the last group
InitGroupedFair ==
    /\ InitGrouped
    /\ data_in \in {BaseTable, PrecomputedTable, TwoColumnTable}
    /\ group_by \in {GbStr(<<"k">>), GbList(<<"k", "e">>)}

SpecGroupedFair ==
    /\ InitGroupedFair
    /\ [][NextGrouped]_vars
    /\ WF_vars(ProcessGroupStep)
    /\ WF_vars(ProcessGroupReturn)
    /\ WF_vars(Combine)

----------------------------------------------------------------------------
(* ExecutionOrchestrator.execute_pipeline over a context *)

\* The registry of the pipeline runs: filter "a" over column "x", aggregation
\* "b" over "a", filter "c" over a column "z" that no dataset has
PipelineRegistry ==
    [k \in {KeyOf(NoModel, "a"), KeyOf(NoModel, "b"), KeyOf(NoModel, "c")} |->
        IF k[2] = "a" THEN Def(<<"x">>, FALSE, "mem")
        ELSE IF k[2] = "b" THEN Def(<<"a">>, TRUE, "mem")
        ELSE Def(<<"z">>, FALSE, "mem")]

MaxModels == 3

PipelineNames == <<"m1", "m2", "m3", "m4">>

\* the datasets a model of the pipeline may name as its input: the initial
\* one, or what an earlier model stored
PipelineInputs(i) ==
    IF i = 1 THEN {initial_dataset_name}
    ELSE IF i = 2 THEN {initial_dataset_name, "m1_filters", "m1_attrs", "m1_input"}
    ELSE {initial_dataset_name, "m2_filters"}

\* the model specs: 'name', 'input_dataset' and, of 'config', the plan and group_by
ModelSpecs(i) ==
    {[name |-> PipelineNames[i], input_dataset |-> d, exec_seq |-> es, group_by |-> gb] :
        d \in PipelineInputs(i),
        es \in {<<"a">>, <<"a", "b">>, <<"c">>},
        gb \in {GbNone, GbList(<<"k">>)}}

Pipelines ==
    UNION {{p \in [1..n -> UNION {ModelSpecs(i) : i \in 1..n}] :
               \A i \in 1..n : p[i] \in ModelSpecs(i)} : n \in 2..MaxModels}

InitPipeline ==
    /\ features = PipelineRegistry
    /\ current_model = NoModel
    /\ feature_index = <<>>
    /\ disk = <<>>
    /\ data_in = EmptyTable
    /\ available_cols = <<>>
    /\ output_cols = <<>>
    /\ group_by = GbNone
    /\ ext_names = {}
    /\ req_model = NoModel
    /\ input_cols = <<>>
    /\ expanded = <<>>
    /\ exec_seq = <<>>
    /\ rpc = "returned"
    /\ last = NoCall
    /\ epc = "idle"
    /\ ctx_datasets = [n \in {initial_dataset_name} |-> BaseTable]
    /\ pipeline \in Pipelines
    /\ pstep = 1
    /\ EngineIdle
    /\ DetectorIdle

\* the loop treating a failed model like a finished one
PipelineReady_AfterError(pc) ==
    pc \in {"idle", "stored", "ValueError", "KeyError", "IndexError", "Exception"}

\* execute_pipeline's loop reaches its next iteration when there is no call
\* in progress: at the start, and when execute_single_model has returned
PipelineReady(pc) == pc \in {"idle", "stored"}

\* execute_pipeline: one iteration of the loop up to process_all_groups, the
\* model spec's name, config and input dataset being handed to
\* execute_single_model
PipelineStep ==
    /\ pstep \in 1..Len(pipeline)
    /\ PipelineReady(epc)
    /\ LET model_spec == pipeline[pstep]
       IN  /\ req_model' = model_spec.name
           /\ exec_seq' = model_spec.exec_seq
           /\ group_by' = model_spec.group_by
           /\ execute_model_start(model_spec.name, model_spec.exec_seq, model_spec.group_by,
                                  <<>>, model_spec.input_dataset)
    /\ groups' = <<>>
    /\ gi' = 0
    /\ fi' = 0
    /\ work' = EmptyTable
    /\ agg_results' = <<>>
    /\ filters_calculated' = <<>>
    /\ grouped_results' = <<>>
    /\ filters_df' = EmptyTable
    /\ attrs_df' = EmptyTable
    /\ calls' = <<>>
    /\ output' = NoOutput
    /\ UNCHANGED <<detVars, storeVars, output_cols, available_cols, input_cols, expanded, rpc, last,
                   ext_names, ctx_models, ctx_datasets, pipeline, pstep>>

NextPipeline == PipelineStep \/ ProcessAllGroups \/ ProcessGroupStep \/ ProcessGroupReturn
                \/ Combine \/ EnrichStep \/ EnrichReturn \/ ExecuteReturn \/ SetModelOutput

SpecPipeline == InitPipeline /\ [][NextPipeline]_vars

----------------------------------------------------------------------------
(* Properties of the resolved plan *)

\* the argument list the resolver reads for a name (Case 3)
ArgsOf(f) == get_feature(features, current_model, f, NoModel).args

\* a name the resolver treats as a feature: not an available column, and
\* defined in the store or in the model's feature index
IsFeatureName(d) ==
    /\ ~InSeq(d, available_cols)
    /\ (has_feature(features, d) \/ InSeq(d, get_feature_index(feature_index, disk, req_model)))

Before(d, f) == IndexOf(exec_seq, d) > 0 /\ IndexOf(exec_seq, d) < IndexOf(exec_seq, f)

\* C1 (as stated): in every returned plan each dependency of a feature of
\* exec_seq that is itself a feature (not an available column) comes strictly
\* earlier in exec_seq.
C1_TopologicalOrder_Stated ==
    rpc = "returned" =>
        \A i \in 1..Len(exec_seq) : \A d \in Range(ArgsOf(exec_seq[i])) :
            IsFeatureName(d) => Before(d, exec_seq[i])

\* C1 (amended): in every returned plan each dependency of a feature of
\* exec_seq that is itself a feature and is not a group-by column comes
\* strictly earlier in exec_seq.
C1_TopologicalOrder ==
    rpc = "returned" =>
        \A i \in 1..Len(exec_seq) : \A d \in Range(ArgsOf(exec_seq[i])) :
            (IsFeatureName(d) /\ ~InSeq(d, normalize_to_list(group_by))) => Before(d, exec_seq[i])

\* a plan with a feature placed after a feature it depends on, while a
\* group-by column was skipped
C1_Witness ==
    /\ rpc = "returned"
    /\ normalize_to_list(group_by) # <<>>
    /\ \E i \in 1..Len(exec_seq) : \E d \in Range(ArgsOf(exec_seq[i])) :
          IsFeatureName(d) /\ ~InSeq(d, normalize_to_list(group_by)) /\ Before(d, exec_seq[i])

\* C2: resolve_dependencies terminates and returns a plan whatever the
\* registry holds, circular dependencies and self-arguments included: the
\* recursion never runs out of stack.
C2_TerminatesOnCycles == rpc # "RecursionError"

\* C5: in every returned plan no name is in both input_cols and exec_seq.
C5_Disjoint ==
    rpc = "returned" => Range(input_cols) \cap Range(exec_seq) = {}

\* a plan with input columns and features, one input column being the name
\* of a registered feature
C5_Witness ==
    /\ rpc = "returned"
    /\ exec_seq # <<>>
    /\ \E c \in Range(input_cols) : has_feature(features, c)

----------------------------------------------------------------------------
(* Properties of the execution engine *)

\* the step the engine is about to take is a loop iteration for this feature
AtFeature == IF fi >= 1 /\ fi <= Len(exec_seq) THEN exec_seq[fi] ELSE "None"

\* an argument of the feature reached is taken from the row table: it is not
\* a scalar result, not an external column, and is a column
ReadsRowColumn(f) ==
    \E arg \in Range(cfg.feature_args[f]) :
        arg \notin DOMAIN agg_results /\ ~InSeq(arg, cfg.ext_cols) /\ HasCol(work, arg)

\* an argument of the feature reached is a scalar result or an external column
ReadsScalar(f) ==
    \E arg \in Range(cfg.feature_args[f]) : arg \in DOMAIN agg_results \/ InSeq(arg, cfg.ext_cols)

\* C3: in grouped execution a feature that is executed becomes a row table
\* column, computed row-wise, exactly when it reads a row column (in_flg) and
\* is not an aggregation; otherwise it is computed once and stored in
\* agg_results; whether it reads a scalar (out_flg) changes nothing.
C3_FourCaseDecision ==
    [][(epc = "group" /\ epc' = "group" /\ fi' = fi + 1 /\ ~HasCol(work, AtFeature)) =>
          IF ReadsRowColumn(AtFeature) /\ ~cfg.feature_groupby_flg[AtFeature]
          THEN /\ HasCol(work', AtFeature)
               /\ Len(work'.rows) = Len(work.rows)
               /\ agg_results' = agg_results
               /\ calls'[Len(calls')].c.kind = "filter"
          ELSE /\ AtFeature \in DOMAIN agg_results'
               /\ work' = work
               /\ Len(calls') = Len(calls) + 1
               /\ calls'[Len(calls')].c.kind = "attribute"]_vars

\* a group in which an aggregation read a row column and became a scalar and
\* a non-aggregation read a row column and that scalar and became a column
C3_Witness ==
    /\ epc = "group"
    /\ \E i, j \in 1..Len(calls) :
          /\ calls[i].g = gi /\ calls[j].g = gi
          /\ calls[i].c.kind = "attribute" /\ calls[i].c.agg /\ calls[i].c.in_flg
          /\ calls[j].c.kind = "filter" /\ calls[j].c.out_flg
          /\ calls[i].c.f \in DOMAIN agg_results
          /\ HasCol(work, calls[j].c.f)

\* the Case 2 registry: "a" an aggregation over row column "x", "b" not an
\* aggregation over "x" and "a"; grouped by "k" on the raw input
Case2Setup ==
    /\ KeyOf(NoModel, "a") \in DOMAIN features
    /\ KeyOf(NoModel, "b") \in DOMAIN features
    /\ features[KeyOf(NoModel, "a")] = Def(<<"x">>, TRUE, "mem")
    /\ features[KeyOf(NoModel, "b")] = Def(<<"x", "a">>, FALSE, "mem")
    /\ group_by.cols = <<"k">>
    /\ data_in = BaseTable

\* the scalar "a" of the group with key k: the body applied once to the
\* group's "x" values
GroupScalarA(k) ==
    App("a", <<Arr(ColValues(GroupFrame(data_in, <<"k">>, <<k>>), "x"))>>)

\* C4: in the Case 2 setup "a" precedes "b" in exec_seq, and in every group
\* "b" is a filter column whose rows were computed from the row's "x" and the
\* scalar "a" of that same group, computed earlier in the same pass.
C4_Case2 ==
    Case2Setup =>
        /\ rpc = "returned" => Before("a", "b")
        /\ (epc = "group" /\ fi > IndexOf(exec_seq, "b")) =>
              /\ HasCol(work, "b")
              /\ "b" \notin DOMAIN agg_results
              /\ "a" \in DOMAIN agg_results
              /\ agg_results["a"] = GroupScalarA(groups[gi][1])
              /\ \A r \in 1..Len(work.rows) :
                    work.rows[r]["b"] = App("b", <<work.rows[r]["x"], GroupScalarA(groups[gi][1])>>)
              /\ \E i, j \in 1..Len(calls) :
                    /\ i < j /\ calls[i].g = gi /\ calls[j].g = gi
                    /\ calls[i].c.f = "a" /\ calls[i].c.kind = "attribute"
                    /\ calls[j].c.f = "b" /\ calls[j].c.kind = "filter"
        /\ epc = "done" =>
              /\ HasCol(filters_df, "b")
              /\ ~HasCol(attrs_df, "b")
              /\ Len(filters_df.rows) = Len(data_in.rows)
              /\ \A r \in 1..Len(filters_df.rows) :
                    filters_df.rows[r]["b"] =
                        App("b", <<filters_df.rows[r]["x"], GroupScalarA(filters_df.rows[r]["k"])>>)

\* the Case 2 run finished with both groups processed
C4_Witness ==
    /\ Case2Setup
    /\ epc = "done"
    /\ Len(grouped_results) = 2
    /\ HasCol(filters_df, "b")
    /\ HasCol(attrs_df, "a")

\* the argument of the feature reached that none of the three sources holds
MissingArgs(f) ==
    {arg \in Range(cfg.feature_args[f]) :
        arg \notin DOMAIN agg_results /\ ~InSeq(arg, cfg.ext_cols) /\ ~HasCol(work, arg)}

\* C6: in grouped mode an argument that names a group-by column is always
\* found: argument resolution never raises "argument not found" for it.
C6_GroupByColumnsAvailable ==
    ~(/\ epc = "ValueError"
      /\ ~(cfg.group_by.kind = "None" \/ cfg.group_by.cols = <<>>)
      /\ MissingArgs(AtFeature) \cap Range(cfg.group_by.cols) # {})

\* no group key: group_by is None, '' or []
NoGroupKey(g) == g.kind = "None" \/ g.cols = <<>>

EngineErrors == {"ValueError", "KeyError", "IndexError"}

\* C7 (as stated): in enrichment mode a plan that holds aggregation features
\* never ends in a fatal error, also when a later non-aggregation feature has
\* a skipped feature as an argument.
C7_EnrichmentNeverFails_Stated ==
    (NoGroupKey(cfg.group_by) /\ \E f \in DOMAIN cfg.feature_groupby_flg : cfg.feature_groupby_flg[f])
        => epc \notin EngineErrors

\* C7 (amended): in enrichment mode the step at an aggregation feature
\* raises nothing, calls nothing and leaves the table as it is; a step that
\* raises ValueError is at a non-aggregation feature with an argument that is
\* not a column of the working table (such as a skipped aggregation).
C7_AggregationSkipped ==
    [][(epc = "enrich" /\ fi <= Len(exec_seq) /\ ~HasCol(work, AtFeature)
            /\ AtFeature \in DOMAIN cfg.feature_groupby_flg) =>
          IF cfg.feature_groupby_flg[AtFeature]
          THEN epc' = "enrich" /\ fi' = fi + 1 /\ work' = work /\ calls' = calls
          ELSE (epc' = "ValueError") <=>
                   (\E arg \in Range(cfg.feature_args[AtFeature]) : ~HasCol(work, arg))]_vars

\* an enrichment run that skipped an aggregation and then stopped at a
\* feature that has it as an argument
C7_Witness ==
    /\ epc = "ValueError"
    /\ NoGroupKey(cfg.group_by)
    /\ \E arg \in Range(cfg.feature_args[AtFeature]) :
          /\ arg \in DOMAIN cfg.feature_groupby_flg
          /\ cfg.feature_groupby_flg[arg]
          /\ IndexOf(exec_seq, arg) < fi

C9_IdempotentSkip ==
    [][(epc \in {"group", "enrich"} /\ fi <= Len(exec_seq) /\ HasCol(work, AtFeature)) =>
          /\ calls' = calls
          /\ agg_results' = agg_results
          /\ work' = work
          /\ epc' = epc
          /\ fi' = fi + 1]_vars

\* a group past a feature of exec_seq that was a column of the input
C9_Witness ==
    /\ epc = "group"
    /\ fi > 1
    /\ HasCol(data_in, exec_seq[fi - 1])
    /\ HasCol(work, exec_seq[fi - 1])
    /\ \A i \in 1..Len(calls) : calls[i].c.f # exec_seq[fi - 1]

----------------------------------------------------------------------------
(* Properties of the registry *)

\* the definitions held for a name in the common namespace: under the
\* unqualified key (store_feature without a model) or under the common
\* folder's key (load_common_features)
CommonDefs(n) ==
    {features[k] : k \in {KeyOf(NoModel, n), KeyOf(common_folder, n)} \cap DOMAIN features}

\* C10: get_feature(name, model) is the definition under (model, name) when
\* there is one, otherwise the common definition of name, otherwise None,
\* however the common definition entered the registry.
C10_NamespaceFirstCommonFallback ==
    \A n \in StoreNames, m \in StoreModels :
        LET r == get_feature(features, current_model, n, m)
        IN  IF KeyOf(m, n) \in DOMAIN features THEN r = features[KeyOf(m, n)]
            ELSE IF CommonDefs(n) # {} THEN r \in CommonDefs(n)
            ELSE r = NoDef

\* the registry operations C11 is about, whether they returned or raised
ListedStoreOps ==
    {"store_feature", "store_features", "load_from_filesystem",
     "load_from_filesystem:FileNotFoundError", "clear"}

\* C11: after a store_feature, store_features, load_from_filesystem or clear
\* call, has_feature(name) is true exactly when get_feature(name) returns a
\* definition under the active model or the common namespace.
C11_ContainsConsistentWithLookup ==
    last.op \in ListedStoreOps =>
        \A n \in StoreNames :
            has_feature(features, n) <=> (get_feature(features, current_model, n, NoModel) # NoDef)

----------------------------------------------------------------------------
(* More properties of the resolved plan *)

\* a definition is held for the name, under the unqualified key or a model's
IsRegistered(n) == \E k \in DOMAIN features : k[2] = n

Count(s, x) == Cardinality({i \in 1..Len(s) : s[i] = x})

\* the name is an argument of a feature whose argument loop was entered
DependedOn(n) == \E i \in 1..Len(expanded) : InSeq(n, ArgsOf(expanded[i]))

\* the same, the argument loop not skipping it as a group-by column
Recursed(n) == DependedOn(n) /\ ~InSeq(n, normalize_to_list(group_by))

\* what the raw-column base case leaves of a name: once in input_cols, not
\* in exec_seq, its argument loop never entered
RawColumnHandled(n) ==
    /\ Count(input_cols, n) = 1
    /\ ~InSeq(n, exec_seq)
    /\ ~InSeq(n, expanded)

\* C13 (as stated): in every returned plan a requested or depended-on name
\* that is in available_cols is in input_cols once, is not in exec_seq and
\* its arguments were not visited, registered or not.
C13_RawColumnBaseCase_Stated ==
    rpc = "returned" =>
        \A n \in Range(available_cols) :
            (InSeq(n, output_cols) \/ DependedOn(n)) => RawColumnHandled(n)

\* C13 (amended): the same for a requested name and for a depended-on name
\* that is not skipped as a group-by column.
C13_RawColumnBaseCase ==
    rpc = "returned" =>
        \A n \in Range(available_cols) :
            (InSeq(n, output_cols) \/ Recursed(n)) => RawColumnHandled(n)

\* a plan in which an available column that is a registered feature with
\* arguments was reached as an argument of an executed feature
C13_Witness ==
    /\ rpc = "returned"
    /\ \E n \in Range(available_cols) :
          /\ ~InSeq(n, output_cols)
          /\ Recursed(n)
          /\ has_feature(features, n)
          /\ ArgsOf(n) # <<>>
          /\ InSeq(n, input_cols)

\* the model's feature index as resolve_dependencies reads it
FeatIdx == get_feature_index(feature_index, disk, req_model)

\* a missing feature: not an available column, not registered, not in the
\* model's feature index
Missing(n) == ~InSeq(n, available_cols) /\ ~IsRegistered(n) /\ ~InSeq(n, FeatIdx)

\* the names reached from a set of names along argument lists, in k rounds
RECURSIVE ArgClosure(_, _)
ArgClosure(S, k) ==
    IF k = 0 THEN S
    ELSE ArgClosure(S \cup UNION {Range(ArgsOf(n)) : n \in S}, k - 1)

\* some registered feature depends on itself, directly or through others
Cyclic == \E n \in Names : n \in ArgClosure(Range(ArgsOf(n)), Cardinality(Names))

\* C14: a missing name that is requested or recursed into is appended to
\* input_cols once and not to exec_seq, and resolution goes on to return a
\* plan: an exception comes only from a dependency cycle (RecursionError) or
\* from loading a feature of the model's feature index, never from a missing name.
C14_MissingBecomesInput ==
    /\ rpc = "returned" =>
          \A n \in Names :
              (Missing(n) /\ (InSeq(n, output_cols) \/ Recursed(n))) => RawColumnHandled(n)
    /\ rpc = "RecursionError" => Cyclic
    /\ rpc \in {"AttributeError", "FileNotFoundError"} => FeatIdx # <<>>

\* a plan returned with a missing name, reached as an argument, in
\* input_cols beside an executed feature
C14_Witness ==
    /\ rpc = "returned"
    /\ exec_seq # <<>>
    /\ \E n \in Names : Missing(n) /\ ~InSeq(n, output_cols) /\ Recursed(n) /\ InSeq(n, input_cols)

\* the group-by columns as the resolver reads them
GroupByNames == Range(normalize_to_list(group_by))

C16_ClosureCoverage ==
    rpc = "returned" =>
        \A i \in 1..Len(exec_seq) : \A d \in Range(ArgsOf(exec_seq[i])) :
            InSeq(d, input_cols) \/ InSeq(d, exec_seq) \/ d \in GroupByNames

\* a plan with an executed feature of two arguments, the first covered by
\* exec_seq and the second, a group-by column, by group_by alone
C16_Witness ==
    /\ rpc = "returned"
    /\ \E i \in 1..Len(exec_seq) :
          LET args == ArgsOf(exec_seq[i])
          IN  /\ Len(args) = 2
              /\ InSeq(args[1], exec_seq)
              /\ args[2] \in GroupByNames
              /\ ~InSeq(args[2], input_cols)
              /\ ~InSeq(args[2], exec_seq)

----------------------------------------------------------------------------
(* Fatal errors *)

\* the exceptions that leave execute_model: the engine's own and the ones a
\* feature's function raises
FatalErrors == EngineErrors \cup {"Exception"}

\* the datasets set_model_output can store for a model
ModelDatasets(m) == {m \o "_filters", m \o "_attrs"}

\* C17: a fatal error aborts the whole model run with no partial success. A
\* grouped step at a feature with an argument found in none of agg_results,
\* the external columns and the row table's columns ends the run in an
\* exception, as does a raising feature function; a run that ended in an
\* exception takes no further step, has returned no output, has no
\* filters/attrs frame (also for the groups already processed) and has stored
\* nothing in the context for the model.
C17_FatalAbortsModelRun ==
    /\ [][(epc = "group" /\ fi <= Len(exec_seq) /\ ~HasCol(work, AtFeature)
             /\ AtFeature \in DOMAIN cfg.feature_args /\ MissingArgs(AtFeature) # {})
            => epc' \in FatalErrors]_vars
    /\ [][epc \notin FatalErrors]_vars
    /\ [](epc \in FatalErrors =>
             /\ output = NoOutput
             /\ filters_df = EmptyTable
             /\ attrs_df = EmptyTable
             /\ req_model \notin DOMAIN ctx_models
             /\ ModelDatasets(req_model) \cap DOMAIN ctx_datasets = {})

\* execute_model stopped by a raising feature function in the second group,
\* after the first group was processed with results
C17_Witness ==
    /\ epc = "Exception"
    /\ cfg.model_name = req_model
    /\ gi = 2
    /\ Len(grouped_results) = 1
    /\ grouped_results[1].filters_calculated # <<>>
    /\ DOMAIN grouped_results[1].agg_results # {}

----------------------------------------------------------------------------
(* Isolation of the models of a pipeline *)

\* the names of the models execute_pipeline has completed
Completed == {pipeline[i].name : i \in 1..(pstep - 1)}

\* the names of the failed model and of the models after it
NotCompleted == {pipeline[i].name : i \in pstep..Len(pipeline)}

\* C18: when execute_pipeline runs m1..mn in order and mk raises, the
\* context holds the model entries and the <model>_filters / <model>_attrs
\* datasets of m1..m(k-1) as stored when each completed (no step changes or
\* removes a stored entry or dataset), holds no entry or dataset of mk or of
\* a later model, and no later model is executed (no step follows).
C18_PipelineIsolation ==
    /\ [][/\ \A m \in DOMAIN ctx_models :
                m \in DOMAIN ctx_models' /\ ctx_models'[m] = ctx_models[m]
           /\ \A n \in DOMAIN ctx_datasets :
                n \in DOMAIN ctx_datasets' /\ ctx_datasets'[n] = ctx_datasets[n]]_vars
    /\ [][epc \notin FatalErrors]_vars
    /\ [](epc \in FatalErrors =>
             /\ DOMAIN ctx_models = Completed
             /\ \A m \in Completed :
                    /\ ctx_models[m].outputs.returned
                    /\ (m \o "_filters" \in DOMAIN ctx_datasets) <=>
                           (\E c \in Range(ctx_models[m].outputs.exec_fltrs) :
                               InSeq(c, ctx_models[m].outputs.filters.cols))
                    /\ (m \o "_attrs" \in DOMAIN ctx_datasets) <=>
                           ~IsEmptyTable(ctx_models[m].outputs.attrs)
             /\ \A m \in NotCompleted :
                    ModelDatasets(m) \cap DOMAIN ctx_datasets = {})

\* a pipeline of three models whose second model raised after the first one
\* stored its filters and attrs
C18_Witness ==
    /\ Len(pipeline) = 3
    /\ pstep = 2
    /\ epc = "Exception"
    /\ DOMAIN ctx_models = {"m1"}
    /\ {"m1_filters", "m1_attrs"} \subseteq DOMAIN ctx_datasets
    /\ gi = 2

----------------------------------------------------------------------------
(* The tables of a grouped run *)

\* process_all_groups has returned from a grouped run
GroupedDone == epc \in {"done", "returned", "stored"} /\ ~NoGroupKey(cfg.group_by)

\* the distinct group-key values of the input (combinations, for several
\* group-by columns); a missing value is no key value
DistinctKeys ==
    {k \in {GroupKey(data_in.rows[i], cfg.group_by.cols) : i \in 1..Len(data_in.rows)} :
        ~IsNullKey(k)}

\* the input cell values a computed value was made of
RECURSIVE Leaves(_)
Leaves(v) ==
    IF v.args = <<>> THEN {v.op} \cap Range(ValueOrder)
    ELSE UNION {Leaves(v.args[i]) : i \in 1..Len(v.args)}

\* the cell values of the input rows of one group
GroupValues(key) ==
    {data_in.rows[i][c].op :
        i \in {j \in 1..Len(data_in.rows) : GroupKey(data_in.rows[j], cfg.group_by.cols) = key},
        c \in Range(data_in.cols)}

RowsOf(key) ==
    SelectSeq([i \in 1..Len(data_in.rows) |-> i],
              LAMBDA i : GroupKey(data_in.rows[i], cfg.group_by.cols) = key)

\* the input rows group after group, the groups in the iteration order
RECURSIVE RowsInGroupOrder(_)
RowsInGroupOrder(keys) ==
    IF keys = <<>> THEN <<>> ELSE RowsOf(Head(keys)) \o RowsInGroupOrder(Tail(keys))

\* C20: in grouped mode filters_table has exactly one row per input row; the
\* rows of each group are contiguous and in their original relative order,
\* the groups are in the grouping operation's iteration order, and every row
\* carries its input cells, the group-key value(s) among them.
C20_FiltersOneRowPerInputRow ==
    GroupedDone =>
        LET order == RowsInGroupOrder(GroupKeys(data_in, cfg.group_by.cols))
        IN  /\ Len(filters_df.rows) = Len(data_in.rows)
            /\ Len(order) = Len(data_in.rows)
            /\ \A j \in 1..Len(filters_df.rows) : \A c \in Range(data_in.cols) :
                   /\ j <= Len(order)
                   /\ InSeq(c, filters_df.cols)
                   /\ filters_df.rows[j][c] = data_in.rows[order[j]][c]

----------------------------------------------------------------------------
(* The filter / attribute report *)

\* the features the run calculated as filters, and as attributes
CalculatedAs(kind) == {calls[i].c.f : i \in {j \in 1..Len(calls) : calls[j].c.kind = kind}}

\* C21: the report execute_model returns reflects where each feature landed:
\* exec_fltrs lists exactly the features this run calculated as filters,
\* exec_attrs exactly those it calculated as attributes, and no name is in both.
C21_ExecReportExact ==
    output.returned =>
        /\ Range(output.exec_fltrs) = CalculatedAs("filter")
        /\ Range(output.exec_attrs) = CalculatedAs("attribute")
        /\ Range(output.exec_fltrs) \cap Range(output.exec_attrs) = {}

----------------------------------------------------------------------------
(* Model-specific definitions over common ones *)

\* C22: after a feature is stored for model A (store_features with
\* model_name = A, or store_feature with model = A) under a name that has a
\* common definition, lookup under A returns A's definition, lookup under
\* every other model returns what it returned before, and the common
\* definition is the one it was.
C22_OverrideWithoutLeak ==
    [][(/\ last'.op \in {"store_feature", "store_features"}
        /\ last'.model \in StoreModels
        /\ KeyOf(NoModel, last'.name) \in DOMAIN features)
       => /\ get_feature(features', current_model', last'.name, last'.model) = last'.def
          /\ \A B \in StoreModels \ {last'.model} :
                get_feature(features', current_model', last'.name, B)
                    = get_feature(features, current_model, last'.name, B)
          /\ features'[KeyOf(NoModel, last'.name)] = features[KeyOf(NoModel, last'.name)]]_vars

----------------------------------------------------------------------------
(* The aggregation classifier *)

\* two characters are the same letter, whatever their case
SameLetter(c, d) ==
    \/ c = d
    \/ {c, d} = {"g", "G"}
    \/ {c, d} = {"y", "Y"}

\* the keyword occurs in the text, ignoring case
OccursIgnoringCase(keyword, text) ==
    \E i \in 0..(Len(text) - Len(keyword)) :
        \A j \in 1..Len(keyword) : SameLetter(text[i + j], keyword[j])

----------------------------------------------------------------------------
(* The single pass over exec_seq *)

\* the features the calculator was called for in group g, in call order
CalledIn(g) ==
    LET mine == SelectSeq(calls, LAMBDA c : c.g = g)
    IN  [i \in 1..Len(mine) |-> mine[i].c.f]

\* the features of exec_seq that are no column of the frame group g starts with
ToCalculate(g) ==
    SelectSeq(exec_seq,
              LAMBDA f : ~HasCol(GroupFrame(data_in, cfg.group_by.cols, groups[g]), f))

IsPrefix(s, t) == Len(s) <= Len(t) /\ \A i \in 1..Len(s) : s[i] = t[i]

\* C24: in grouped mode the calculator is called exactly once for every
\* feature of exec_seq that is no column of the group's frame, in exec_seq
\* order, in every group; a group in progress or stopped by an exception has
\* made a prefix of these calls, no step follows an exception (no retry),
\* and a run in a group ends in Done or in an exception.
C24_SinglePassExactlyOnce ==
    /\ [](epc \in {"group", "combine", "done"} \cup FatalErrors =>
            /\ \A g \in 1..Len(grouped_results) : CalledIn(g) = ToCalculate(g)
            /\ (gi > Len(grouped_results) /\ gi <= Len(groups)) =>
                   IsPrefix(CalledIn(gi), ToCalculate(gi)))
    /\ [][epc \notin FatalErrors]_vars
    /\ (epc = "group") ~> (epc = "done" \/ epc \in FatalErrors)

\* a finished run over three groups with two calculator calls in each
C24_Witness ==
    /\ epc = "done"
    /\ Len(groups) = 3
    /\ \A g \in 1..3 : Len(CalledIn(g)) = 2

----------------------------------------------------------------------------
(* The priority of the argument sources *)

\* the source process_group takes an argument from: 1 agg_results,
\* 2 the external column list, 3 the columns of the group's frame
ArgSource(arg) ==
    IF arg \in DOMAIN agg_results THEN 1
    ELSE IF InSeq(arg, cfg.ext_cols) THEN 2
    ELSE IF HasCol(work, arg) THEN 3
    ELSE 0

\* the value process_group passes for an argument of the given source
ArgValue(arg) ==
    IF ArgSource(arg) = 1 THEN agg_results[arg]
    ELSE IF ArgSource(arg) = 2 THEN work.rows[1][arg]
    ELSE Arr(ColValues(work, arg))

----------------------------------------------------------------------------
(* The working state of a group *)

\* the input cell values the arguments of a calculation call were made of
CallLeaves(c) == UNION {Leaves(c.data[i]) : i \in 1..Len(c.data)}

\* C26: every group starts with an empty agg_results and a frame of its own
\* rows only, and every argument passed while a group is processed is made
\* of cell values of that group's rows only.
C26_GroupStateNotShared ==
    /\ (epc = "group" /\ fi = 1) =>
          LET mine == RowsOf(groups[gi])
          IN  /\ agg_results = <<>>
              /\ filters_calculated = <<>>
              /\ Len(work.rows) = Len(mine)
              /\ \A j \in 1..Len(mine) : \A c \in Range(work.cols) :
                    work.rows[j][c] = data_in.rows[mine[j]][c]
    /\ (epc \in {"group", "combine", "done"} \cup FatalErrors) =>
          \A i \in 1..Len(calls) :
              CallLeaves(calls[i].c) \subseteq GroupValues(groups[calls[i].g])

\* the second group reads a scalar and a column, after the first group computed both
C26_Witness ==
    /\ epc = "done"
    /\ Len(groups) >= 2
    /\ \E i \in 1..Len(calls) :
          /\ calls[i].g = 2
          /\ calls[i].c.in_flg /\ calls[i].c.out_flg
          /\ CallLeaves(calls[i].c) # {}
          /\ GroupValues(groups[1]) \cap GroupValues(groups[2]) = {}

----------------------------------------------------------------------------
(* One store per result *)

\* C27: while a group is processed over an exec_seq without duplicates, no
\* name is both a key of agg_results and a column of the group's frame.
C27_OneStorePerResult ==
    (epc \in {"group", "combine"} \cup FatalErrors /\ ~NoGroupKey(cfg.group_by)
        /\ \A i, j \in 1..Len(exec_seq) : exec_seq[i] = exec_seq[j] => i = j) =>
        /\ \A n \in DOMAIN agg_results : ~HasCol(work, n)
        /\ \A g \in 1..Len(grouped_results) :
              \A n \in DOMAIN grouped_results[g].agg_results : ~HasCol(grouped_results[g].data_in, n)

\* a group that finished with a scalar result and a computed column
C27_Witness ==
    /\ epc = "group"
    /\ fi > Len(exec_seq)
    /\ agg_results # <<>>
    /\ filters_calculated # <<>>
    /\ \A n \in Range(filters_calculated) : HasCol(work, n) /\ n \notin DOMAIN agg_results

----------------------------------------------------------------------------
(* Dependencies are ready when a feature is reached *)

\* the engine is at feature exec_seq[fi] of group gi and will calculate it
Reached ==
    /\ epc = "group"
    /\ fi <= Len(exec_seq)
    /\ exec_seq[fi] \in DOMAIN cfg.feature_args
    /\ ~HasCol(work, exec_seq[fi])

\* the features calculated so far in group gi
CalculatedIn(g) == {calls[i].c.f : i \in {j \in 1..Len(calls) : calls[j].g = g}}

\* C28: in a grouped run of a plan that resolve_dependencies made, when the
\* engine reaches a feature, each of its arguments that is a feature of
\* exec_seq is a key of agg_results or a column of the frame, so that
\* argument resolution finds it; when the plan was made for the columns of
\* the input, the argument also comes before the feature in exec_seq and was
\* calculated in this pass over this group.
C28_DependenciesReady ==
    Reached =>
        \A i \in 1..Len(cfg.feature_args[exec_seq[fi]]) :
            LET arg == cfg.feature_args[exec_seq[fi]][i]
            IN  InSeq(arg, exec_seq) =>
                   /\ arg \in DOMAIN agg_results \/ HasCol(work, arg)
                   /\ Range(available_cols) = Range(data_in.cols) =>
                          /\ IndexOf(exec_seq, arg) < fi
                          /\ arg \in CalculatedIn(gi)

----------------------------------------------------------------------------
(* The same classification in every group *)

\* C29: in a run of process_all_groups every feature gets the same outcome in
\* every group: no feature is calculated as a filter column in one group and
\* as an attribute scalar in another, and a feature that is skipped in one
\* group is skipped in all finished groups.
C29_UniformClassification ==
    (epc \in {"group", "combine", "done"} \cup FatalErrors /\ ~NoGroupKey(cfg.group_by)) =>
        /\ \A i, j \in 1..Len(calls) :
              calls[i].c.f = calls[j].c.f => calls[i].c.kind = calls[j].c.kind
        /\ \A g, h \in 1..Len(grouped_results) :
              /\ DOMAIN grouped_results[g].agg_results = DOMAIN grouped_results[h].agg_results
              /\ grouped_results[g].filters_calculated = grouped_results[h].filters_calculated

\* a finished run over groups of two rows and of one row, with a filter and
\* an attribute calculated in each
C29_Witness ==
    /\ epc = "done"
    /\ Len(grouped_results) = 2
    /\ Len(grouped_results[1].data_in.rows) # Len(grouped_results[2].data_in.rows)
    /\ \A g \in 1..2 :
          /\ \E i \in 1..Len(calls) : calls[i].g = g /\ calls[i].c.kind = "filter"
          /\ \E i \in 1..Len(calls) : calls[i].g = g /\ calls[i].c.kind = "attribute"

----------------------------------------------------------------------------
(* The caller's table *)

\* process_all_groups is running
InProcessAllGroups == epc \in {"analyzed", "group", "enrich", "combine"}

\* C30: no step of process_all_groups, in grouped or in enrichment mode,
\* ending in a result or in an exception, changes the table the caller
\* passed or a dataset of the context: the new columns are in the working
\* copies only.
C30_InputTableUnchanged ==
    [][InProcessAllGroups => data_in' = data_in /\ ctx_datasets' = ctx_datasets]_vars

\* a run of execute_model that ended after it calculated a filter column:
\* the column is in the result, not in the caller's table or the context's dataset
C30_Witness ==
    /\ epc \in {"done"} \cup FatalErrors
    /\ cfg.model_name # NoModel
    /\ \E i \in 1..Len(calls) :
          /\ calls[i].c.kind = "filter"
          /\ ~HasCol(data_in, calls[i].c.f)
          /\ ~HasCol(ctx_datasets[initial_dataset_name], calls[i].c.f)
          /\ epc = "done" => HasCol(filters_df, calls[i].c.f)

====
